---------------------------- MODULE Spec2Model ----------------------------
(***************************************************************************)
(* A model of workona-import: the bookmark renderer (make_bookmarks), the  *)
(* command (generate_bookmarks), and the patched YAML loader               *)
(* (WorkonaExportLoader: reader, scanner, parser, composer and the buffer  *)
(* patch for unquoted `title`/`description` values).                       *)
(*                                                                         *)
(* Text is a sequence of one-character strings.  Python values are tagged  *)
(* records, so that `0 == {...}` is a comparison the model can make.       *)
(***************************************************************************)
EXTENDS Integers, Sequences, FiniteSets, TLC

VARIABLES
    \* make_bookmarks(data, workspaces, wrapped) and what it returned
    data, workspaces, wrapped, output,
    \* generate_bookmarks: position, the input file's extension and content,
    \* whether a decoder has been entered, and the output file
    pc, inputfile, rawdata, parsing, outputfile,
    \* the YAML loader: the document, the reader, and inside
    \* patch_buffer_for_unquoted_scalar its position and locals; the token
    \* scanned from a patched value
    doc, rd, ppc, idx, scalar, tok,
    \* the loader's scanner and parser fields, the composer's position, its
    \* calls in progress and the node last returned, and what yaml_load gave
    loader, cpc, cstack, ret, result

renderVars == <<data, workspaces, wrapped, output>>
cliVars == <<pc, inputfile, rawdata, parsing, outputfile>>
loadVars == <<loader, cpc, cstack, ret, result>>
yamlVars == <<doc, rd, ppc, idx, scalar, tok, loadVars>>
vars == <<renderVars, cliVars, yamlVars>>

-----------------------------------------------------------------------------
(* Python values *)

NoneVal == [k |-> "none"]
PyInt(i) == [k |-> "int", v |-> i]
PyStr(s) == [k |-> "str", v |-> s]
PyList(items) == [k |-> "list", v |-> items]
\* a dict in insertion order: a sequence of <<key, value>> pairs
PyDict(items) == [k |-> "dict", v |-> items]
Exc(name) == [k |-> "exc", v |-> name]

Raised(x) == x.k = "exc"

title_ == <<"t", "i", "t", "l", "e">>
tabs_ == <<"t", "a", "b", "s">>
url_ == <<"u", "r", "l">>
Workspaces_ == <<"W", "o", "r", "k", "s", "p", "a", "c", "e", "s">>

\* a == b where a is an int (an enumeration index) and b any value
PyEqNever(i, x) == FALSE
PyEq(i, x) == x.k = "int" /\ x.v = i

HasKey(d, key) == d.k = "dict" /\ \E j \in 1..Len(d.v) : d.v[j][1] = key

\* d[key]
Subscript(d, key) ==
    CASE d.k = "exc" -> d
      [] d.k = "dict" ->
            IF HasKey(d, key)
            THEN d.v[CHOOSE j \in 1..Len(d.v) : d.v[j][1] = key][2]
            ELSE Exc("KeyError")
      [] d.k = "list" ->
            IF key.k = "int" /\ key.v + 1 \in 1..Len(d.v)
            THEN d.v[key.v + 1]
            ELSE Exc(IF key.k = "int" THEN "IndexError" ELSE "TypeError")
      [] OTHER -> Exc("TypeError")

\* what `for i, x in enumerate(c)` binds x to: a dict's keys, a list's items
Enumerate(c) ==
    CASE c.k = "dict" -> [j \in 1..Len(c.v) |-> c.v[j][1]]
      [] c.k = "list" -> c.v
      [] OTHER -> <<>>

Iterable(c) == c.k \in {"dict", "list"}

-----------------------------------------------------------------------------
(* make_bookmarks *)

wrapper == <<"W", "o", "r", "k", "o", "n", "a", " ", "E", "x", "p", "o", "r", "t">>

\* An output line: the f-string's literal text and the values it interpolates.
Line(fmt, args) == [fmt |-> fmt, args |-> args]

\* `if workspaces:`
Truthy(ws) == ws.k = "list" /\ Len(ws.v) > 0

\* `workspace['title'] in workspaces`
IsPrefix(s, t) == Len(s) <= Len(t) /\ SubSeq(t, 1, Len(s)) = s
TitleInPrefix(title, ws) ==
    \E j \in 1..Len(ws.v) : title.k = "str" /\ IsPrefix(ws.v[j].v, title.v)
TitleIn(title, ws) == \E j \in 1..Len(ws.v) : ws.v[j] = title

\* widx == wvalue ? coll[wvalue] : wvalue
Resolve(coll, i, value) ==
    IF PyEq(i, value) THEN Subscript(coll, value) ELSE value

\* the filter loop, lines 258-267: acc is filtered['Workspaces']
RECURSIVE FilterLoop(_, _, _, _)
FilterLoop(coll, ws, i, acc) ==
    IF i > Len(Enumerate(coll)) THEN PyDict(acc)
    ELSE LET workspace == Resolve(coll, i - 1, Enumerate(coll)[i])
             title == Subscript(workspace, PyStr(title_))
         IN  IF Raised(title) THEN title
             ELSE IF TitleIn(title, ws)
                  THEN FilterLoop(coll, ws, i + 1,
                                  Append(acc, <<PyInt(Len(acc)), workspace>>))
                  ELSE FilterLoop(coll, ws, i + 1, acc)

\* lines 255-269: the collection the output pass walks
Filtered(d, ws) ==
    LET coll == Subscript(d, PyStr(Workspaces_))
    IN  IF ~Truthy(ws) THEN coll
        ELSE IF Raised(coll) THEN coll
        ELSE IF ~Iterable(coll) THEN Exc("TypeError")
        ELSE FilterLoop(coll, ws, 1, <<>>)

\* tab.get('title', url)
TabLabelUrl(tab, url) == url
TabLabel(tab, url) ==
    IF HasKey(tab, PyStr(title_)) THEN Subscript(tab, PyStr(title_)) ELSE url

\* the tab loop, lines 292-302
RECURSIVE TabLoop(_, _, _)
TabLoop(coll, i, out) ==
    IF i > Len(Enumerate(coll)) THEN PyList(out)
    ELSE LET tab == Resolve(coll, i - 1, Enumerate(coll)[i])
             url == Subscript(tab, PyStr(url_))
             desc == TabLabel(tab, url)
         IN  IF Raised(url) THEN url
             ELSE TabLoop(coll, i + 1,
                    Append(out, Line("\t\t\t<DT><A HREF=\"{url}\">{desc}</a>",
                                     <<url, desc>>)))

\* lines 286-305: one workspace's group
WorkspaceLines(workspace) ==
    LET title == Subscript(workspace, PyStr(title_))
        head == << Line("\t<DT><H3 FOLDED>{title}</H3>", <<title>>),
                   Line("\t\t<DL><p>", <<>>) >>
        tabs == IF HasKey(workspace, PyStr(tabs_))
                THEN LET coll == Subscript(workspace, PyStr(tabs_))
                     IN  IF Iterable(coll) THEN TabLoop(coll, 1, <<>>)
                         ELSE Exc("TypeError")
                ELSE PyList(<<>>)
    IN  IF Raised(title) THEN title
        ELSE IF Raised(tabs) THEN tabs
        ELSE PyList(head \o tabs.v \o
                  << Line("\t\t</DL>", <<>>), Line("\t</DT>", <<>>) >>)

\* the workspace loop, lines 279-305
RECURSIVE WorkspaceLoop(_, _, _)
WorkspaceLoop(coll, i, out) ==
    IF i > Len(Enumerate(coll)) THEN PyList(out)
    ELSE LET workspace == Resolve(coll, i - 1, Enumerate(coll)[i])
             lines == WorkspaceLines(workspace)
         IN  IF Raised(lines) THEN lines
             ELSE WorkspaceLoop(coll, i + 1, out \o lines.v)

\* `if wrapped: output.append(...)`
IfWrappedAlways(w, line) == <<line>>
IfWrapped(w, line) == IF w THEN <<line>> ELSE <<>>

\* make_bookmarks: the list of lines that "\n".join(output) joins, or the
\* exception raised
make_bookmarks(d, ws, w) ==
    LET coll == Filtered(d, ws)
        preamble ==
            << Line("<!DOCTYPE NETSCAPE-Bookmark-file-1>", <<>>),
               Line("<!<META HTTP-EQUIV=\"Content-Type\" CONTENT=\"text/html; charset=UTF-8\">", <<>>),
               Line("<DL><p>", <<>>) >>
            \o IfWrapped(w, Line("<DT><H3 FOLDED>{wrapper}</H3>\n<DL>", <<PyStr(wrapper)>>))
        body == IF Raised(coll) THEN coll
                ELSE IF ~Iterable(coll) THEN Exc("TypeError")
                ELSE WorkspaceLoop(coll, 1, <<>>)
    IN  IF Raised(body) THEN body
        ELSE PyList(preamble \o body.v
                  \o IfWrapped(w, Line("</DL></DT>", <<>>))
                  \o << Line("</DL>", <<>>) >>)


-----------------------------------------------------------------------------
(* The trees make_bookmarks is given *)

MaxWorkspaces == 3

Work == <<"W", "o", "r", "k">>
Home == <<"H", "o", "m", "e">>
Work2 == <<"W", "o", "r", "k", "2">>
work == <<"w", "o", "r", "k">>
UrlX == <<"h", "t", "t", "p", "s", ":", "/", "/", "x", ".", "t", "e", "s", "t">>
UrlY == <<"h", "t", "t", "p", ":", "/", "/", "y">>
LabelY == <<"Y", " ", "s", "i", "t", "e">>

Shapes == {"dict", "list"}

\* a collection of records in one of the two serializations' shapes
Coll(shape, items) ==
    IF shape = "dict"
    THEN PyDict([j \in 1..Len(items) |-> <<PyInt(j - 1), items[j]>>])
    ELSE PyList(items)

Items(coll) ==
    IF coll.k = "dict" THEN [j \in 1..Len(coll.v) |-> coll.v[j][2]] ELSE coll.v

ReshapeWorkspace(w, st) ==
    PyDict([j \in 1..Len(w.v) |->
              IF w.v[j][1] = PyStr(tabs_)
              THEN <<w.v[j][1], Coll(st, Items(w.v[j][2]))>>
              ELSE w.v[j]])

\* the same logical content with the workspaces in shape sw, the tabs in st
Reshape(d, sw, st) ==
    PyDict(<< <<PyStr(Workspaces_),
                Coll(sw, [j \in 1..Len(Items(d.v[1][2])) |->
                            ReshapeWorkspace(Items(d.v[1][2])[j], st)])>> >>)

TabX == PyDict(<< <<PyStr(url_), PyStr(UrlX)>> >>)
TabY == PyDict(<< <<PyStr(title_), PyStr(LabelY)>>, <<PyStr(url_), PyStr(UrlY)>> >>)
TabNoUrl == PyDict(<< <<PyStr(title_), PyStr(LabelY)>> >>)

\* a workspace record; tabs = <<>> stands for a record without `tabs`
WorkspaceRec(t, hasTabs, st, tabs) ==
    PyDict(<< <<PyStr(title_), PyStr(t)>> >>
           \o IF hasTabs THEN << <<PyStr(tabs_), Coll(st, tabs)>> >> ELSE <<>>)

WorkspacePool(st) ==
    { WorkspaceRec(Work, TRUE, st, <<TabX, TabY>>),
      WorkspaceRec(Home, FALSE, st, <<>>),
      WorkspaceRec(Work2, TRUE, st, <<>>),
      WorkspaceRec(wrapper, TRUE, st, <<TabY>>),
      WorkspaceRec(work, TRUE, st, <<TabY, TabX>>),
      WorkspaceRec(Home, TRUE, st, <<TabNoUrl>>),
      PyDict(<< <<PyStr(tabs_), Coll(st, <<TabX>>)>> >>) }

SeqsUpTo(S, n) == UNION { [1..m -> S] : m \in 0..n }

Trees ==
    { PyDict(<< <<PyStr(Workspaces_), Coll(sw, items)>> >>) :
        sw \in Shapes,
        items \in UNION { SeqsUpTo(WorkspacePool(st), MaxWorkspaces) : st \in Shapes } }

Filters ==
    { NoneVal, PyList(<<>>), PyList(<<PyStr(Work)>>),
      PyList(<<PyStr(Home), PyStr(Work)>>) }

-----------------------------------------------------------------------------
(* SpecRender: make_bookmarks applied to every tree, filter and flag *)

CliIdle ==
    /\ pc = "idle" /\ inputfile = "" /\ rawdata = NoneVal
    /\ parsing = FALSE /\ outputfile = NoneVal

LoadIdle ==
    /\ loader = NoneVal /\ cpc = "idle" /\ cstack = <<>>
    /\ ret = NoneVal /\ result = NoneVal

YamlIdle ==
    /\ doc = <<>> /\ rd = NoneVal /\ ppc = "idle"
    /\ idx = 0 /\ scalar = <<>> /\ tok = NoneVal
    /\ LoadIdle

InitRender ==
    /\ data \in Trees
    /\ workspaces \in Filters
    /\ wrapped \in BOOLEAN
    /\ output = NoneVal
    /\ CliIdle
    /\ YamlIdle

Render ==
    /\ pc = "idle"
    /\ output = NoneVal
    /\ output' = make_bookmarks(data, workspaces, wrapped)
    /\ UNCHANGED <<data, workspaces, wrapped, cliVars, yamlVars>>

NextRender == Render

SpecRender == InitRender /\ [][NextRender]_vars

-----------------------------------------------------------------------------
(* SpecCli: generate_bookmarks, one statement at a time.  A file's content *)
(* is either malformed for its decoder or the text of a list of workspace  *)
(* records; json.loads gives the sequence shape, yaml_load the index-keyed *)
(* mapping shape.                                                          *)

Extensions == {".json", ".txt", ".yaml"}

Contents ==
    { [ok |-> FALSE, records |-> <<>>] }
    \cup { [ok |-> TRUE, records |-> items] :
             items \in SeqsUpTo(WorkspacePool("list"), MaxWorkspaces) }

Loads(shape, raw) ==
    IF raw.ok
    THEN Reshape(PyDict(<< <<PyStr(Workspaces_), PyList(raw.records)>> >>), shape, shape)
    ELSE Exc("DecodeError")

InitCli ==
    /\ pc = "read"
    /\ inputfile \in [ext : Extensions, content : Contents]
    /\ workspaces \in { PyList(<<>>), PyList(<<PyStr(Work)>>) }
    /\ wrapped = TRUE
    /\ rawdata = NoneVal /\ data = NoneVal /\ output = NoneVal
    /\ parsing = FALSE /\ outputfile = NoneVal
    /\ YamlIdle

\* lines 13-14
ReadInput ==
    /\ pc = "read"
    /\ rawdata' = inputfile.content
    /\ pc' = "dispatch"
    /\ UNCHANGED <<inputfile, parsing, outputfile, renderVars, yamlVars>>

\* lines 16, 18, 20-21: the branch taken on the file name
Dispatch ==
    /\ pc = "dispatch"
    /\ pc' = CASE inputfile.ext = ".json" -> "json_loads"
               [] inputfile.ext = ".txt" -> "yaml_load"
               [] OTHER -> "error"
    /\ UNCHANGED <<inputfile, rawdata, parsing, outputfile, renderVars, yamlVars>>

\* where a decoder's result leads
AfterLoad(d) == IF Raised(d) THEN "error" ELSE "render"

\* line 17
LoadJson ==
    /\ pc = "json_loads"
    /\ parsing' = TRUE
    /\ data' = Loads("list", rawdata)
    /\ pc' = AfterLoad(data')
    /\ UNCHANGED <<inputfile, rawdata, outputfile, workspaces, wrapped, output, yamlVars>>

\* line 19
LoadYaml ==
    /\ pc = "yaml_load"
    /\ parsing' = TRUE
    /\ data' = Loads("dict", rawdata)
    /\ pc' = AfterLoad(data')
    /\ UNCHANGED <<inputfile, rawdata, outputfile, workspaces, wrapped, output, yamlVars>>

\* where make_bookmarks' result leads
AfterRenderAny(out) == "open"
AfterRender(out) == IF Raised(out) THEN "error" ELSE "open"

\* line 23
RenderStep ==
    /\ pc = "render"
    /\ output' = make_bookmarks(data, workspaces, wrapped)
    /\ pc' = AfterRender(output')
    /\ UNCHANGED <<inputfile, rawdata, parsing, outputfile, data, workspaces, wrapped, yamlVars>>

\* line 25: open(outputfile, 'w') creates or truncates the file
OpenOutput ==
    /\ pc = "open"
    /\ outputfile' = PyList(<<>>)
    /\ pc' = "write"
    /\ UNCHANGED <<inputfile, rawdata, parsing, renderVars, yamlVars>>

\* line 26
WriteOutput ==
    /\ pc = "write"
    /\ outputfile' = output
    /\ pc' = "done"
    /\ UNCHANGED <<inputfile, rawdata, parsing, renderVars, yamlVars>>

NextCli ==
    \/ ReadInput \/ Dispatch \/ LoadJson \/ LoadYaml
    \/ RenderStep \/ OpenOutput \/ WriteOutput

SpecCli == InitCli /\ [][NextCli]_vars

-----------------------------------------------------------------------------
(* The reader: yaml.reader.Reader as ConfigurableBufferedReader drives it. *)
(* A reader is a record: the underlying stream's unread text, raw_buffer   *)
(* (rawNone: raw_buffer is None), eof, buffer, pointer, the marks index,   *)
(* line and column, and buffer_sz.                                         *)

\* F applied to the value of v, which is computed once
Let(v, F(_)) == CHOOSE y \in { F(x) : x \in {v} } : TRUE

NUL == "NUL"
LF == "\n"
Q == "\""
BS == "\\"
IndexError == "IndexError"

\* '\0\r\n\x85  '
Breaks == {"\r", LF, "NEL", "LS", "PS"}
BreakOrNul == Breaks \cup {NUL}

Min(a, b) == IF a < b THEN a ELSE b
Drop(s, n) == SubSeq(s, n + 1, Len(s))

\* Reader.update_raw, called with size = buffer_sz (lines 122-125)
update_raw(r0) ==
    Let(r0, LAMBDA r :
    Let(Min(r.buffer_sz, Len(r.stream)), LAMBDA n :
        [r EXCEPT !.raw = IF r.rawNone THEN SubSeq(r.stream, 1, n)
                          ELSE r.raw \o SubSeq(r.stream, 1, n),
                  !.rawNone = FALSE,
                  !.stream = Drop(r.stream, n),
                  !.eof = (n = 0)]))

\* the loop of Reader.update: append decoded raw data until `length`
\* characters are buffered or the stream has ended
RECURSIVE UpdateLoop(_, _)
UpdateLoop(r0, length) ==
    Let(r0, LAMBDA r :
        IF Len(r.buffer) >= length THEN r
        ELSE Let(IF ~r.eof THEN update_raw(r) ELSE r, LAMBDA r1 :
                 IF r1.eof
                 THEN [r1 EXCEPT !.buffer = @ \o r1.raw \o <<NUL>>, !.raw = <<>>,
                                 !.rawNone = TRUE]
                 ELSE UpdateLoop([r1 EXCEPT !.buffer = @ \o r1.raw, !.raw = <<>>],
                                 length)))

\* Reader.update(length): drop the consumed prefix, then refill
Update(r0, length) ==
    Let(r0, LAMBDA r :
        IF r.rawNone THEN r
        ELSE UpdateLoop([r EXCEPT !.buffer = Drop(@, r.pointer), !.pointer = 0], length))

\* the reader after peek(i): the buffer grows when pointer+i is past its end
Fill(r0, i) ==
    Let(r0, LAMBDA r : IF r.pointer + i < Len(r.buffer) THEN r ELSE Update(r, i + 1))

\* the character peek(i) returns
PeekCh(r0, i) ==
    Let(Fill(r0, i), LAMBDA f :
        IF f.pointer + i < Len(f.buffer) THEN f.buffer[f.pointer + i + 1] ELSE IndexError)

\* the reader after prefix(n)
PrefixFill(r0, n) ==
    Let(r0, LAMBDA r : IF r.pointer + n >= Len(r.buffer) THEN Update(r, n) ELSE r)

\* the marks after one character is consumed
Step(r) ==
    LET ch == r.buffer[r.pointer + 1]
        nl == \/ ch \in {LF, "NEL", "LS", "PS"}
              \/ ch = "\r" /\ r.pointer + 1 < Len(r.buffer)
                           /\ r.buffer[r.pointer + 2] # LF
    IN  [r EXCEPT !.pointer = @ + 1, !.index = @ + 1,
                  !.line = IF nl THEN @ + 1 ELSE @,
                  !.column = IF nl THEN 0 ELSE @ + 1]

RECURSIVE Move(_, _)
Move(r0, n) ==
    Let(r0, LAMBDA r :
        IF n = 0 \/ r.pointer >= Len(r.buffer) THEN r ELSE Move(Step(r), n - 1))

\* Reader.forward(n)
Forward(r0, n) ==
    Let(r0, LAMBDA r :
        Move(IF r.pointer + n + 1 >= Len(r.buffer) THEN Update(r, n + 1) ELSE r, n))

\* Reader.determine_encoding on a text stream: read until two characters
\* are at hand, then update(1)
RECURSIVE DetermineLoop(_)
DetermineLoop(r0) ==
    Let(r0, LAMBDA r :
        IF ~r.eof /\ (r.rawNone \/ Len(r.raw) < 2) THEN DetermineLoop(update_raw(r)) ELSE r)

\* ConfigurableBufferedReader(stream, buffer_sz) on an open text stream
StreamReader(text, sz) ==
    Update(DetermineLoop(
        [stream |-> text, raw |-> <<>>, rawNone |-> TRUE, eof |-> FALSE,
         buffer |-> <<>>, pointer |-> 0, index |-> 0, line |-> 0, column |-> 0,
         buffer_sz |-> sz]), 1)

\* ConfigurableBufferedReader(data, buffer_sz) on a str or bytes object, as
\* yaml_load builds it: the whole text is buffered at once
DataReader(text, sz) ==
    [stream |-> <<>>, raw |-> <<>>, rawNone |-> TRUE, eof |-> TRUE,
     buffer |-> text \o <<NUL>>, pointer |-> 0, index |-> 0, line |-> 0, column |-> 0,
     buffer_sz |-> sz]

\* the input not yet consumed, wherever it is held
Unconsumed(r) ==
    Drop(r.buffer, r.pointer) \o (IF r.rawNone THEN <<>> ELSE r.raw \o r.stream \o <<NUL>>)

-----------------------------------------------------------------------------
(* patch_buffer_for_unquoted_scalar (lines 45-108) *)

Digits == {"0", "1", "2", "3", "4", "5", "6", "7", "8", "9"}
PyWhitespace == {" ", "\t", LF, "\r", "VT", "FF"}

RECURSIVE LStrip(_)
LStrip(s) == IF s # <<>> /\ Head(s) \in PyWhitespace THEN LStrip(Tail(s)) ELSE s
RECURSIVE RStrip(_)
RStrip(s) ==
    IF s # <<>> /\ s[Len(s)] \in PyWhitespace THEN RStrip(SubSeq(s, 1, Len(s) - 1)) ELSE s

\* int(scalar) returns: surrounding whitespace, a sign, digits with single
\* underscores between them
IsPyInt(s) ==
    Let(RStrip(LStrip(s)), LAMBDA t :
    Let(IF t # <<>> /\ Head(t) \in {"+", "-"} THEN Tail(t) ELSE t, LAMBDA b :
        /\ b # <<>>
        /\ b[1] \in Digits /\ b[Len(b)] \in Digits
        /\ \A j \in 1..Len(b) : b[j] \in Digits \cup {"_"}
        /\ \A j \in 1..(Len(b) - 1) : ~(b[j] = "_" /\ b[j + 1] = "_")))

\* lines 76-86: the two early returns
BailsOnBlankOnly(s) == Len(s) = 0
Bails(s) == Len(s) = 0 \/ IsPyInt(s)

\* scalar.replace('"', r'\"')
RECURSIVE Escape(_)
Escape(s) ==
    IF s = <<>> THEN <<>>
    ELSE (IF Head(s) = Q THEN <<BS, Q>> ELSE <<Head(s)>>) \o Escape(Tail(s))

\* lines 103-108
Swap(r, s) ==
    LET original_sz == Len(s)
        end == r.pointer + original_sz
    IN  [r EXCEPT !.buffer = SubSeq(r.buffer, 1, r.pointer)
                              \o <<Q>> \o Escape(s) \o <<Q>>
                              \o Drop(r.buffer, end)]

\* line 69: what reading the character at offset i does to the reader
ScanAdvance(r, i) == Forward(Fill(r, i), 1)
ScanPeek(r, i) == Fill(r, i)

\* lines 55-56
RECURSIVE SkipSpaces(_)
SkipSpaces(r0) ==
    Let(Fill(r0, 0), LAMBDA r :
        IF PeekCh(r, 0) = " " THEN SkipSpaces(Forward(r, 1)) ELSE r)

\* lines 58-74
RECURSIVE ScanLine(_, _, _)
ScanLine(r0, i, s0) ==
    Let(r0, LAMBDA r : Let(s0, LAMBDA s : Let(PeekCh(r, i), LAMBDA ch :
        IF ch \in BreakOrNul \cup {IndexError}
        THEN [r |-> ScanPeek(r, i), scalar |-> s]
        ELSE ScanLine(ScanPeek(r, i), i + 1, Append(s, ch)))))

patch_buffer_for_unquoted_scalar(r) ==
    Let(ScanLine(SkipSpaces(r), 0, <<>>), LAMBDA scan :
        IF Bails(scan.scalar) THEN scan.r ELSE Swap(scan.r, scan.scalar))

-----------------------------------------------------------------------------
(* The scanner's double-quoted scalar: yaml.scanner.Scanner.scan_flow_scalar *)
(* with its helpers, which is what tokenizes a patched value.               *)

EscapeReplacements ==
    [c \in {"0", "a", "b", "t", "\t", "n", "v", "f", "r", "e", " ", Q, "/", BS, "N", "_", "L", "P"} |->
        CASE c = "0" -> "NULCHAR" [] c = "a" -> "BEL" [] c = "b" -> "BACKSPACE"
          [] c = "t" -> "\t" [] c = "\t" -> "\t" [] c = "n" -> LF [] c = "v" -> "VT"
          [] c = "f" -> "FF" [] c = "r" -> "\r" [] c = "e" -> "ESC" [] c = " " -> " "
          [] c = Q -> Q [] c = "/" -> "/" [] c = BS -> BS [] c = "N" -> "NEL"
          [] c = "_" -> "NBSP" [] c = "L" -> "LS" [] c = "P" -> "PS"]
EscapeCodes == [c \in {"x", "u", "U"} |-> CASE c = "x" -> 2 [] c = "u" -> 4 [] c = "U" -> 8]
HexDigits == Digits \cup {"A", "B", "C", "D", "E", "F", "a", "b", "c", "d", "e", "f"}

ScanError(r, what) == [ok |-> FALSE, r |-> r, chunks |-> <<>>, error |-> what]
ScanOk(r, chunks) == [ok |-> TRUE, r |-> r, chunks |-> chunks, error |-> ""]

\* scan_line_break: the reader after it, and the break it returns
ScanLineBreak(r0) ==
    Let(Fill(r0, 0), LAMBDA r : Let(PeekCh(r, 0), LAMBDA ch :
        IF ch \in {"\r", LF, "NEL"}
        THEN IF ch = "\r" /\ PeekCh(PrefixFill(r, 2), 1) = LF
             THEN Forward(PrefixFill(r, 2), 2)
             ELSE Forward(PrefixFill(r, 2), 1)
        ELSE IF ch \in {"LS", "PS"} THEN Forward(r, 1)
        ELSE r))
LineBreakText(r) ==
    Let(PeekCh(r, 0), LAMBDA ch :
        IF ch \in {"\r", LF, "NEL"} THEN <<LF>>
        ELSE IF ch \in {"LS", "PS"} THEN <<ch>> ELSE <<>>)

\* the count of `while self.peek(n) not in stop: n += 1`
RECURSIVE RunLength(_, _, _)
RunLength(r, n, stop) ==
    IF PeekCh(r, n) \in stop \cup {IndexError} THEN n ELSE RunLength(r, n + 1, stop)
\* the count of `while self.peek(n) in set: n += 1`
RECURSIVE RunWhile(_, _, _)
RunWhile(r, n, set) ==
    IF PeekCh(r, n) \in set THEN RunWhile(r, n + 1, set) ELSE n

\* prefix(n) followed by forward(n): the reader after, and the text taken
Take(r, n) == Forward(PrefixFill(r, n), n)
Taken(r0, n) ==
    Let(PrefixFill(r0, n), LAMBDA r :
        SubSeq(r.buffer, r.pointer + 1, Min(r.pointer + n, Len(r.buffer))))

IsDocSeparator(r) ==
    /\ Taken(r, 3) \in {<<"-", "-", "-">>, <<".", ".", ".">>}
    /\ PeekCh(PrefixFill(r, 3), 3) \in BreakOrNul \cup {" ", "\t"}

\* scan_flow_scalar_breaks
RECURSIVE FlowBreaks(_, _)
FlowBreaks(r0, chunks0) ==
    Let(r0, LAMBDA r : Let(chunks0, LAMBDA chunks :
        IF IsDocSeparator(r) THEN ScanError(r, "found unexpected document separator")
        ELSE Let(RunWhile(PrefixFill(r, 3), 0, {" ", "\t"}), LAMBDA n :
             Let(IF n = 0 THEN Fill(PrefixFill(r, 3), 0)
                 ELSE Forward(Fill(PrefixFill(r, 3), n), n), LAMBDA r1 :
                 IF PeekCh(r1, 0) \in Breaks
                 THEN FlowBreaks(ScanLineBreak(r1), chunks \o LineBreakText(r1))
                 ELSE ScanOk(r1, chunks)))))

\* a backslash in a double-quoted scalar: r is the reader after it
FlowEscape(r0, chunks) ==
    Let(Fill(r0, 0), LAMBDA r : Let(PeekCh(r, 0), LAMBDA e :
        IF e \in DOMAIN EscapeReplacements
        THEN ScanOk(Forward(r, 1), Append(chunks, EscapeReplacements[e]))
        ELSE IF e \in DOMAIN EscapeCodes
        THEN Let(Forward(r, 1), LAMBDA r3 :
                 IF \E k \in 0..(EscapeCodes[e] - 1) : PeekCh(r3, k) \notin HexDigits
                 THEN ScanError(r3, "expected escape sequence of hexdecimal numbers")
                 ELSE ScanOk(Take(Fill(r3, EscapeCodes[e] - 1), EscapeCodes[e]),
                             Append(chunks, "CHR")))
        ELSE IF e \in Breaks
        THEN Let(FlowBreaks(ScanLineBreak(r), <<>>), LAMBDA b :
                 IF b.ok THEN ScanOk(b.r, chunks \o b.chunks) ELSE b)
        ELSE ScanError(r, "found unknown escape character")))

\* scan_flow_scalar_non_spaces, double = True
RECURSIVE FlowNonSpaces(_, _)
FlowNonSpaces(r0, chunks0) ==
    Let(r0, LAMBDA r : Let(chunks0, LAMBDA chunks :
    Let(RunLength(r, 0, {"'", Q, BS, NUL, " ", "\t"} \cup Breaks), LAMBDA n :
    Let(IF n > 0 THEN Take(Fill(r, n), n) ELSE Fill(r, n), LAMBDA r1 :
    Let(IF n > 0 THEN chunks \o Taken(Fill(r, n), n) ELSE chunks, LAMBDA c1 :
    Let(PeekCh(r1, 0), LAMBDA ch :
        IF ch = "'" THEN FlowNonSpaces(Forward(r1, 1), Append(c1, ch))
        ELSE IF ch = BS
        THEN Let(FlowEscape(Forward(r1, 1), c1), LAMBDA e :
                 IF e.ok THEN FlowNonSpaces(e.r, e.chunks) ELSE e)
        ELSE ScanOk(r1, c1)))))))

\* scan_flow_scalar_spaces
FlowSpaces(r0) ==
    Let(r0, LAMBDA r : Let(RunWhile(r, 0, {" ", "\t"}), LAMBDA n :
    Let(Take(Fill(r, n), n), LAMBDA r1 : Let(PeekCh(r1, 0), LAMBDA ch :
        IF ch = NUL THEN ScanError(Fill(r1, 0), "found unexpected end of stream")
        ELSE IF ch \in Breaks
        THEN Let(FlowBreaks(ScanLineBreak(r1), <<>>), LAMBDA b :
                 IF ~b.ok THEN b
                 ELSE ScanOk(b.r, (IF LineBreakText(r1) # <<LF>> THEN LineBreakText(r1)
                                   ELSE IF b.chunks = <<>> THEN <<" ">> ELSE <<>>)
                                  \o b.chunks))
        ELSE ScanOk(Fill(r1, 0), Taken(Fill(r, n), n))))))

\* the loop of scan_flow_scalar: spaces, then non-spaces, up to the quote
RECURSIVE FlowRest(_)
FlowRest(res0) ==
    Let(res0, LAMBDA res :
        IF ~res.ok THEN res
        ELSE IF PeekCh(res.r, 0) = Q THEN res
        ELSE Let(FlowSpaces(res.r), LAMBDA s :
                 IF ~s.ok THEN s
                 ELSE FlowRest(FlowNonSpaces(s.r, res.chunks \o s.chunks))))

\* scan_flow_scalar('"'): the token's value and the reader after the
\* closing quote, or the ScannerError
scan_flow_scalar(r) ==
    Let(FlowRest(FlowNonSpaces(Forward(Fill(r, 0), 1), <<>>)), LAMBDA body :
        IF body.ok THEN ScanOk(Forward(Fill(body.r, 0), 1), body.chunks) ELSE body)

-----------------------------------------------------------------------------
(* SpecPatch: a reader over a document `title:<value line>...`, driven as  *)
(* the scanner drives it (peek and forward) up to the end of the key, then *)
(* patch_buffer_for_unquoted_scalar one loop iteration at a time, then the *)
(* scanner's scan of the patched value.                                    *)

MaxText == 3
MaxBufferSz == 3
BufferSz == 4096

PatchAlphabet == {"a", "1", "-", " ", Q, BS}
Key == title_ \o <<":">>
Trails == { <<>>, <<LF, "a">> }
PatchDocs ==
    { Key \o body \o trail : body \in SeqsUpTo(PatchAlphabet, MaxText), trail \in Trails }

RenderIdle ==
    /\ data = NoneVal /\ workspaces = NoneVal /\ wrapped = FALSE /\ output = NoneVal

InitPatch ==
    /\ doc \in PatchDocs
    /\ rd \in { StreamReader(doc, sz) : sz \in 1..MaxBufferSz } \cup { DataReader(doc, BufferSz) }
    /\ ppc = "tokens"
    /\ idx = 0 /\ scalar = <<>> /\ tok = NoneVal
    /\ LoadIdle /\ RenderIdle /\ CliIdle

\* the scanner consuming the key: forward()
ReaderForward ==
    /\ ppc = "tokens"
    /\ rd.index < Len(Key)
    /\ rd' = Forward(rd, 1)
    /\ UNCHANGED <<doc, ppc, idx, scalar, tok, loadVars, renderVars, cliVars>>

\* the scanner looking ahead: peek(k)
ReaderPeek ==
    /\ ppc = "tokens"
    /\ \E k \in 0..2 : rd' = Fill(rd, k)
    /\ rd' # rd
    /\ UNCHANGED <<doc, ppc, idx, scalar, tok, loadVars, renderVars, cliVars>>

\* compose_node calls the patch once the key's node is composed (line 36)
PatchEnter ==
    /\ ppc = "tokens"
    /\ rd.index = Len(Key)
    /\ ppc' = "skip"
    /\ UNCHANGED <<doc, rd, idx, scalar, tok, loadVars, renderVars, cliVars>>

\* lines 55-58: one test of the while loop
PatchSkipStep ==
    /\ ppc = "skip"
    /\ IF PeekCh(rd, 0) = " "
       THEN /\ rd' = Forward(Fill(rd, 0), 1)
            /\ UNCHANGED <<ppc, idx, scalar>>
       ELSE /\ rd' = Fill(rd, 0)
            /\ ppc' = "scan"
            /\ idx' = 0
            /\ scalar' = <<>>
    /\ UNCHANGED <<doc, tok, loadVars, renderVars, cliVars>>

\* lines 62-74: one iteration of the scan loop
PatchScanStep ==
    /\ ppc = "scan"
    /\ rd' = ScanPeek(rd, idx)
    /\ IF PeekCh(rd, idx) \in BreakOrNul \cup {IndexError}
       THEN /\ ppc' = "check"
            /\ UNCHANGED <<idx, scalar>>
       ELSE /\ scalar' = Append(scalar, PeekCh(rd, idx))
            /\ idx' = idx + 1
            /\ UNCHANGED ppc
    /\ UNCHANGED <<doc, tok, loadVars, renderVars, cliVars>>

\* lines 76-108: the early returns, or the swap
PatchFinish ==
    /\ ppc = "check"
    /\ IF Bails(scalar)
       THEN /\ ppc' = "bailed"
            /\ UNCHANGED rd
       ELSE /\ ppc' = "swapped"
            /\ rd' = Swap(rd, scalar)
    /\ UNCHANGED <<doc, idx, scalar, tok, loadVars, renderVars, cliVars>>

\* the scanner resumes: fetch_double on the patched value
ScanPatched ==
    /\ ppc = "swapped"
    /\ tok' = scan_flow_scalar(rd)
    /\ rd' = tok'.r
    /\ ppc' = "scanned"
    /\ UNCHANGED <<doc, idx, scalar, loadVars, renderVars, cliVars>>

NextPatch ==
    \/ ReaderForward \/ ReaderPeek \/ PatchEnter
    \/ PatchSkipStep \/ PatchScanStep \/ PatchFinish \/ ScanPatched

SpecPatch == InitPatch /\ [][NextPatch]_vars

-----------------------------------------------------------------------------
(* The loader.  WorkonaExportLoader (lines 179-196) is one object that is  *)
(* reader, scanner, parser and composer at once; the operators below take  *)
(* it as a record L holding the reader rd, the scanner's and the parser's  *)
(* fields, and err, the exception raised ("" while none is).  The          *)
(* documents of the model hold no directive, document marker, anchor,      *)
(* alias, tag, block scalar, single quote, flow sequence or explicit key,  *)
(* and the scanner's and parser's branches for those are left out.         *)

description_ == <<"d", "e", "s", "c", "r", "i", "p", "t", "i", "o", "n">>
UNQUOTED_NODE_KEYS == {title_, description_}

\* '\0 \t\r\n\x85  '
Whitespace == BreakOrNul \cup {" ", "\t"}
FlowIndicators == {",", "[", "]", "{", "}"}

Token(id, value, plain, start, end) ==
    [id |-> id, value |-> value, plain |-> plain, start |-> start, end |-> end]
Mark(L, id) == Token(id, <<>>, FALSE, L.rd.index, L.rd.index)
Fail(L, what) == [L EXCEPT !.err = what]

\* tokens.insert(at, token)
Insert(tokens, at, token) ==
    SubSeq(tokens, 1, at) \o <<token>> \o SubSeq(tokens, at + 1, Len(tokens))

\* Scanner.next_possible_simple_key: -1 stands for None
next_possible_simple_key(L) ==
    IF L.possible_simple_keys = {} THEN -1
    ELSE CHOOSE n \in { k.token_number : k \in L.possible_simple_keys } :
            \A k \in L.possible_simple_keys : n <= k.token_number

stale_possible_simple_keys(L0) ==
    Let(L0, LAMBDA L :
    Let({ k \in L.possible_simple_keys :
            k.line # L.rd.line \/ L.rd.index - k.index > 1024 }, LAMBDA stale :
        IF \E k \in stale : k.required
        THEN Fail(L, "could not find expected ':'")
        ELSE [L EXCEPT !.possible_simple_keys = @ \ stale]))

remove_possible_simple_key(L0) ==
    Let(L0, LAMBDA L :
        IF \E k \in L.possible_simple_keys : k.level = L.flow_level /\ k.required
        THEN Fail(L, "could not find expected ':'")
        ELSE [L EXCEPT !.possible_simple_keys = { k \in @ : k.level # L.flow_level }])

save_possible_simple_key(L0) ==
    Let(L0, LAMBDA L :
        IF ~L.allow_simple_key THEN L
        ELSE Let(remove_possible_simple_key(L), LAMBDA R :
             IF R.err # "" THEN R
             ELSE [R EXCEPT !.possible_simple_keys = @ \cup
                     {[level |-> R.flow_level,
                       token_number |-> R.tokens_taken + Len(R.tokens),
                       required |-> R.flow_level = 0 /\ R.indent = R.rd.column,
                       index |-> R.rd.index, line |-> R.rd.line,
                       column |-> R.rd.column]}]))

RECURSIVE unwind_indent(_, _)
unwind_indent(L0, column) ==
    Let(L0, LAMBDA L :
        IF L.flow_level # 0 \/ L.indent <= column THEN L
        ELSE unwind_indent([L EXCEPT !.indent = L.indents[Len(L.indents)],
                                     !.indents = SubSeq(@, 1, Len(@) - 1),
                                     !.tokens = Append(@, Mark(L, "BLOCK-END"))], column))

add_indent(L, column) ==
    IF L.indent < column
    THEN [L EXCEPT !.indents = Append(@, L.indent), !.indent = column]
    ELSE L

\* while self.peek() in set: self.forward()
RECURSIVE ForwardWhile(_, _)
ForwardWhile(r0, set) ==
    Let(r0, LAMBDA r :
        IF PeekCh(r, 0) \in set THEN ForwardWhile(Forward(r, 1), set) ELSE r)
\* while self.peek() not in stop: self.forward()
RECURSIVE ForwardUntil(_, _)
ForwardUntil(r0, stop) ==
    Let(r0, LAMBDA r :
        IF PeekCh(r, 0) \in stop THEN r ELSE ForwardUntil(Forward(r, 1), stop))

RECURSIVE scan_to_next_token(_)
scan_to_next_token(L0) ==
    Let(L0, LAMBDA L :
    Let(ForwardWhile(L.rd, {" "}), LAMBDA r1 :
    Let(IF PeekCh(r1, 0) = "#" THEN ForwardUntil(r1, BreakOrNul) ELSE r1, LAMBDA r2 :
        IF PeekCh(r2, 0) \in Breaks
        THEN scan_to_next_token(
                [L EXCEPT !.rd = ScanLineBreak(r2),
                          !.allow_simple_key = IF L.flow_level = 0 THEN TRUE ELSE @])
        ELSE [L EXCEPT !.rd = r2])))

fetch_stream_end(L0) ==
    Let(remove_possible_simple_key(unwind_indent(L0, -1)), LAMBDA R :
        IF R.err # "" THEN R
        ELSE [R EXCEPT !.allow_simple_key = FALSE, !.possible_simple_keys = {},
                       !.tokens = Append(@, Mark(R, "STREAM-END")), !.done = TRUE])

\* the indicator token of one character at the reader position
Indicator(L, id) ==
    [L EXCEPT !.rd = Forward(@, 1),
              !.tokens = Append(@, Token(id, <<>>, FALSE, L.rd.index, L.rd.index + 1))]

fetch_flow_collection_start(L0, id) ==
    Let(save_possible_simple_key(L0), LAMBDA S :
        IF S.err # "" THEN S
        ELSE Indicator([S EXCEPT !.flow_level = @ + 1, !.allow_simple_key = TRUE], id))

fetch_flow_collection_end(L0, id) ==
    Let(remove_possible_simple_key(L0), LAMBDA R :
        IF R.err # "" THEN R
        ELSE Indicator([R EXCEPT !.flow_level = @ - 1, !.allow_simple_key = FALSE], id))

fetch_flow_entry(L0) ==
    Let(remove_possible_simple_key([L0 EXCEPT !.allow_simple_key = TRUE]), LAMBDA R :
        IF R.err # "" THEN R ELSE Indicator(R, "FLOW-ENTRY"))

fetch_block_entry(L0) ==
    Let(L0, LAMBDA L :
        IF L.flow_level = 0 /\ ~L.allow_simple_key
        THEN Fail(L, "sequence entries are not allowed here")
        ELSE Let(IF L.flow_level = 0 /\ L.indent < L.rd.column
                 THEN [add_indent(L, L.rd.column) EXCEPT
                          !.tokens = Append(@, Mark(L, "BLOCK-SEQUENCE-START"))]
                 ELSE L, LAMBDA A :
             Let(remove_possible_simple_key([A EXCEPT !.allow_simple_key = TRUE]), LAMBDA R :
                 IF R.err # "" THEN R ELSE Indicator(R, "BLOCK-ENTRY"))))

\* the simple key saved at the current flow level
SavedKey(L) == CHOOSE k \in L.possible_simple_keys : k.level = L.flow_level

fetch_value(L0) ==
    Let(L0, LAMBDA L :
        IF \E k \in L.possible_simple_keys : k.level = L.flow_level
        THEN Let(SavedKey(L), LAMBDA key :
             Let(key.token_number - L.tokens_taken, LAMBDA at :
             Let(Token("KEY", <<>>, FALSE, key.index, key.index), LAMBDA keyToken :
             Let([L EXCEPT !.possible_simple_keys = @ \ {key},
                           !.tokens = Insert(@, at, keyToken)], LAMBDA K :
                 Indicator(
                    [(IF K.flow_level = 0 /\ K.indent < key.column
                      THEN [add_indent(K, key.column) EXCEPT
                              !.tokens = Insert(@, at, Token("BLOCK-MAPPING-START", <<>>,
                                                             FALSE, key.index, key.index))]
                      ELSE K)
                     EXCEPT !.allow_simple_key = FALSE], "VALUE")))))
        ELSE IF L.flow_level = 0 /\ ~L.allow_simple_key
        THEN Fail(L, "mapping values are not allowed here")
        ELSE Let(IF L.flow_level = 0 /\ L.indent < L.rd.column
                 THEN [add_indent(L, L.rd.column) EXCEPT
                          !.tokens = Append(@, Mark(L, "BLOCK-MAPPING-START"))]
                 ELSE L, LAMBDA A :
             Let(remove_possible_simple_key(
                    [A EXCEPT !.allow_simple_key = (A.flow_level = 0)]), LAMBDA R :
                 IF R.err # "" THEN R ELSE Indicator(R, "VALUE"))))

\* scan_plain's inner loop: the length of the run it accepts
RECURSIVE PlainLength(_, _, _)
PlainLength(r, flow, length) ==
    Let(PeekCh(r, length), LAMBDA ch :
        IF \/ ch \in Whitespace \cup {IndexError}
           \/ /\ ch = ":"
              /\ PeekCh(r, length + 1)
                    \in Whitespace \cup (IF flow THEN FlowIndicators ELSE {})
           \/ flow /\ ch \in FlowIndicators
        THEN length
        ELSE PlainLength(r, flow, length + 1))

\* the loop over line breaks in scan_plain_spaces
RECURSIVE PlainBreaks(_, _)
PlainBreaks(r0, breaks) ==
    Let(r0, LAMBDA r : Let(PeekCh(r, 0), LAMBDA ch :
        IF ch = " " THEN PlainBreaks(Forward(r, 1), breaks)
        ELSE IF ch \in Breaks
        THEN Let(ScanLineBreak(r), LAMBDA r2 :
                 IF IsDocSeparator(r2) THEN [r |-> r2, breaks |-> <<>>, sep |-> TRUE]
                 ELSE PlainBreaks(r2, breaks \o LineBreakText(r)))
        ELSE [r |-> r, breaks |-> breaks, sep |-> FALSE]))

\* scan_plain_spaces: the reader after, the chunks returned, and whether a
\* line break was passed (allow_simple_key = True)
scan_plain_spaces(r0) ==
    Let(RunWhile(r0, 0, {" "}), LAMBDA n :
    Let(Forward(r0, n), LAMBDA r1 :
        IF PeekCh(r1, 0) \in Breaks
        THEN Let(ScanLineBreak(r1), LAMBDA r2 :
             IF IsDocSeparator(r2) THEN [r |-> r2, chunks |-> <<>>, broke |-> TRUE]
             ELSE Let(PlainBreaks(r2, <<>>), LAMBDA b :
                  IF b.sep THEN [r |-> b.r, chunks |-> <<>>, broke |-> TRUE]
                  ELSE [r |-> b.r,
                        chunks |-> (IF LineBreakText(r1) # <<LF>> THEN LineBreakText(r1)
                                    ELSE IF b.breaks = <<>> THEN <<" ">> ELSE <<>>)
                                   \o b.breaks,
                        broke |-> TRUE]))
        ELSE [r |-> r1, chunks |-> Taken(r0, n), broke |-> FALSE]))

\* the outer loop of scan_plain
RECURSIVE PlainLoop(_, _, _, _, _)
PlainLoop(L0, chunks0, spaces0, end, indent) ==
    Let(L0, LAMBDA L : Let(chunks0, LAMBDA chunks : Let(spaces0, LAMBDA spaces :
    Let(IF PeekCh(L.rd, 0) = "#" THEN 0
        ELSE PlainLength(L.rd, L.flow_level # 0, 0), LAMBDA length :
        IF length = 0 THEN [L |-> L, chunks |-> chunks, end |-> end]
        ELSE Let(Forward(L.rd, length), LAMBDA r1 :
             Let(scan_plain_spaces(r1), LAMBDA sp :
             Let([L EXCEPT !.rd = sp.r, !.allow_simple_key = sp.broke], LAMBDA L1 :
             Let(chunks \o spaces \o Taken(L.rd, length), LAMBDA c1 :
                 IF \/ sp.chunks = <<>>
                    \/ PeekCh(sp.r, 0) = "#"
                    \/ L.flow_level = 0 /\ sp.r.column < indent
                 THEN [L |-> L1, chunks |-> c1, end |-> r1.index]
                 ELSE PlainLoop(L1, c1, sp.chunks, r1.index, indent)))))))))

\* scan_plain, with the token appended as fetch_plain does
scan_plain(L0) ==
    Let(L0, LAMBDA L :
    Let(PlainLoop(L, <<>>, <<>>, L.rd.index, L.indent + 1), LAMBDA p :
        [p.L EXCEPT !.tokens = Append(@, Token("SCALAR", p.chunks, TRUE, L.rd.index, p.end))]))

fetch_plain(L0) ==
    Let(save_possible_simple_key(L0), LAMBDA S :
        IF S.err # "" THEN S ELSE scan_plain([S EXCEPT !.allow_simple_key = FALSE]))

fetch_double(L0) ==
    Let(save_possible_simple_key(L0), LAMBDA S :
        IF S.err # "" THEN S
        ELSE Let(scan_flow_scalar(S.rd), LAMBDA t :
             IF ~t.ok THEN Fail([S EXCEPT !.rd = t.r], t.error)
             ELSE [S EXCEPT !.allow_simple_key = FALSE, !.rd = t.r,
                            !.tokens = Append(@, Token("SCALAR", t.chunks, FALSE,
                                                       S.rd.index, t.r.index))]))

check_block_entry(L) == PeekCh(L.rd, 1) \in Whitespace
check_value(L) == L.flow_level # 0 \/ PeekCh(L.rd, 1) \in Whitespace
check_plain(L) ==
    Let(PeekCh(L.rd, 0), LAMBDA ch :
        \/ ch \notin Whitespace \cup FlowIndicators
                     \cup {"-", "?", ":", "#", "&", "*", "!", "|", ">", "'", Q, "%", "@", "GRAVE"}
        \/ /\ PeekCh(L.rd, 1) \notin Whitespace
           /\ (ch = "-" \/ (L.flow_level = 0 /\ ch \in {"?", ":"})))

fetch_more_tokens(L0) ==
    Let(stale_possible_simple_keys(scan_to_next_token(L0)), LAMBDA B :
        IF B.err # "" THEN B
        ELSE Let(unwind_indent(B, B.rd.column), LAMBDA L :
             Let(PeekCh(L.rd, 0), LAMBDA ch :
                 IF ch = NUL THEN fetch_stream_end(L)
                 ELSE IF ch = "{" THEN fetch_flow_collection_start(L, "FLOW-MAPPING-START")
                 ELSE IF ch = "}" THEN fetch_flow_collection_end(L, "FLOW-MAPPING-END")
                 ELSE IF ch = "," THEN fetch_flow_entry(L)
                 ELSE IF ch = "-" /\ check_block_entry(L) THEN fetch_block_entry(L)
                 ELSE IF ch = ":" /\ check_value(L) THEN fetch_value(L)
                 ELSE IF ch = Q THEN fetch_double(L)
                 ELSE IF check_plain(L) THEN fetch_plain(L)
                 ELSE Fail(L, "found character that cannot start any token"))))

\* while self.need_more_tokens(): self.fetch_more_tokens(), the loop that
\* check_token, peek_token and get_token (lines 166-167) start with
RECURSIVE check_token(_)
check_token(L0) ==
    Let(L0, LAMBDA L :
        IF L.err # "" \/ L.done THEN L
        ELSE IF L.tokens = <<>> THEN check_token(fetch_more_tokens(L))
        ELSE Let(stale_possible_simple_keys(L), LAMBDA S :
                 IF S.err # "" THEN S
                 ELSE IF next_possible_simple_key(S) = S.tokens_taken
                 THEN check_token(fetch_more_tokens(S))
                 ELSE S))

\* what check_token(*choices) returns once the tokens needed are fetched
Check(L, ids) == L.tokens # <<>> /\ Head(L.tokens).id \in ids

\* the loader's methods that are called on self from many places go
\* through Call, by name
RECURSIVE Call(_, _)

\* VerboseScanner.get_token (lines 162-177)
get_token(L0) ==
    Let(Call(L0, "check_token"), LAMBDA L :
        IF L.err # "" \/ L.tokens = <<>> THEN L
        ELSE [L EXCEPT !.tokens_taken = @ + 1, !.tokens = Tail(@)])

-----------------------------------------------------------------------------
(* The parser: yaml.parser.Parser under VerboseParser (lines 127-149).  A  *)
(* state function leaves the event it returns in current_event.            *)


NoEvent == [id |-> "None", value |-> <<>>, plain |-> FALSE]
Event(id) == [id |-> id, value |-> <<>>, plain |-> FALSE]
ScalarEvent(value, plain) == [id |-> "Scalar", value |-> value, plain |-> plain]
\* process_empty_scalar
EmptyScalar == ScalarEvent(<<>>, TRUE)

Emit(L, event, state) == [L EXCEPT !.current_event = event, !.state = state]
PushState(L, state) == [L EXCEPT !.states = Append(@, state)]
\* self.state = self.states.pop()
PopState(L0) ==
    Let(L0, LAMBDA L :
        [L EXCEPT !.state = L.states[Len(L.states)], !.states = SubSeq(@, 1, Len(@) - 1)])

parse_node(L0, block, indentless_sequence) ==
    Let(Call(L0, "check_token"), LAMBDA L :
        IF L.err # "" THEN L
        ELSE IF indentless_sequence /\ Check(L, {"BLOCK-ENTRY"})
        THEN Emit(L, Event("SequenceStart"), "parse_indentless_sequence_entry")
        ELSE IF Check(L, {"SCALAR"})
        THEN Let(Head(L.tokens), LAMBDA token :
                 PopState([Call(L, "get_token") EXCEPT
                             !.current_event = ScalarEvent(token.value, token.plain)]))
        ELSE IF Check(L, {"FLOW-MAPPING-START"})
        THEN Emit(L, Event("MappingStart"), "parse_flow_mapping_first_key")
        ELSE IF block /\ Check(L, {"BLOCK-SEQUENCE-START"})
        THEN Emit(L, Event("SequenceStart"), "parse_block_sequence_first_entry")
        ELSE IF block /\ Check(L, {"BLOCK-MAPPING-START"})
        THEN Emit(L, Event("MappingStart"), "parse_block_mapping_first_key")
        ELSE Fail(L, "expected the node content"))

parse_stream_start(L) ==
    Emit(Call(L, "get_token"), Event("StreamStart"), "parse_implicit_document_start")

parse_document_start(L0) ==
    Let(Call(L0, "check_token"), LAMBDA L :
        IF L.err # "" THEN L
        ELSE IF ~Check(L, {"STREAM-END"}) THEN Fail(L, "expected '<document start>'")
        ELSE Emit(Call(L, "get_token"), Event("StreamEnd"), "None"))

parse_implicit_document_start(L0) ==
    Let(Call(L0, "check_token"), LAMBDA L :
        IF L.err # "" THEN L
        ELSE IF ~Check(L, {"STREAM-END"})
        THEN Emit(PushState(L, "parse_document_end"), Event("DocumentStart"),
                  "parse_block_node")
        ELSE parse_document_start(L))

parse_document_end(L0) ==
    Let(Call(L0, "check_token"), LAMBDA L :
        IF L.err # "" THEN L ELSE Emit(L, Event("DocumentEnd"), "parse_document_start"))

parse_block_sequence_entry(L0) ==
    Let(Call(L0, "check_token"), LAMBDA L :
        IF L.err # "" THEN L
        ELSE IF Check(L, {"BLOCK-ENTRY"})
        THEN Let(Call(Call(L, "get_token"), "check_token"), LAMBDA H :
                 IF H.err # "" THEN H
                 ELSE IF ~Check(H, {"BLOCK-ENTRY", "BLOCK-END"})
                 THEN parse_node(PushState(H, "parse_block_sequence_entry"), TRUE, FALSE)
                 ELSE Emit(H, EmptyScalar, "parse_block_sequence_entry"))
        ELSE IF ~Check(L, {"BLOCK-END"}) THEN Fail(L, "expected <block end>")
        ELSE PopState([Call(L, "get_token") EXCEPT !.current_event = Event("SequenceEnd")]))

parse_indentless_sequence_entry(L0) ==
    Let(Call(L0, "check_token"), LAMBDA L :
        IF L.err # "" THEN L
        ELSE IF Check(L, {"BLOCK-ENTRY"})
        THEN Let(Call(Call(L, "get_token"), "check_token"), LAMBDA H :
                 IF H.err # "" THEN H
                 ELSE IF ~Check(H, {"BLOCK-ENTRY", "KEY", "VALUE", "BLOCK-END"})
                 THEN parse_node(PushState(H, "parse_indentless_sequence_entry"), TRUE, FALSE)
                 ELSE Emit(H, EmptyScalar, "parse_indentless_sequence_entry"))
        ELSE PopState([L EXCEPT !.current_event = Event("SequenceEnd")]))

parse_block_mapping_key(L0) ==
    Let(Call(L0, "check_token"), LAMBDA L :
        IF L.err # "" THEN L
        ELSE IF Check(L, {"KEY"})
        THEN Let(Call(Call(L, "get_token"), "check_token"), LAMBDA H :
                 IF H.err # "" THEN H
                 ELSE IF ~Check(H, {"KEY", "VALUE", "BLOCK-END"})
                 THEN parse_node(PushState(H, "parse_block_mapping_value"), TRUE, TRUE)
                 ELSE Emit(H, EmptyScalar, "parse_block_mapping_value"))
        ELSE IF ~Check(L, {"BLOCK-END"}) THEN Fail(L, "expected <block end>")
        ELSE PopState([Call(L, "get_token") EXCEPT !.current_event = Event("MappingEnd")]))

parse_block_mapping_value(L0) ==
    Let(Call(L0, "check_token"), LAMBDA L :
        IF L.err # "" THEN L
        ELSE IF Check(L, {"VALUE"})
        THEN Let(Call(Call(L, "get_token"), "check_token"), LAMBDA H :
                 IF H.err # "" THEN H
                 ELSE IF ~Check(H, {"KEY", "VALUE", "BLOCK-END"})
                 THEN parse_node(PushState(H, "parse_block_mapping_key"), TRUE, TRUE)
                 ELSE Emit(H, EmptyScalar, "parse_block_mapping_key"))
        ELSE Emit(L, EmptyScalar, "parse_block_mapping_key"))

parse_flow_mapping_key(L0, first) ==
    Let(Call(L0, "check_token"), LAMBDA L :
        IF L.err # "" THEN L
        ELSE IF Check(L, {"FLOW-MAPPING-END"})
        THEN PopState([Call(L, "get_token") EXCEPT !.current_event = Event("MappingEnd")])
        ELSE IF ~first /\ ~Check(L, {"FLOW-ENTRY"})
        THEN Fail(L, "expected ',' or '}'")
        ELSE Let(Call(IF first THEN L ELSE Call(L, "get_token"), "check_token"), LAMBDA E :
             IF E.err # "" THEN E
             ELSE IF Check(E, {"KEY"})
             THEN Let(Call(Call(E, "get_token"), "check_token"), LAMBDA H :
                      IF H.err # "" THEN H
                      ELSE IF ~Check(H, {"VALUE", "FLOW-ENTRY", "FLOW-MAPPING-END"})
                      THEN parse_node(PushState(H, "parse_flow_mapping_value"), FALSE, FALSE)
                      ELSE Emit(H, EmptyScalar, "parse_flow_mapping_value"))
             ELSE IF ~Check(E, {"FLOW-MAPPING-END"})
             THEN parse_node(PushState(E, "parse_flow_mapping_empty_value"), FALSE, FALSE)
             ELSE PopState([Call(E, "get_token") EXCEPT !.current_event = Event("MappingEnd")])))

parse_flow_mapping_value(L0) ==
    Let(Call(L0, "check_token"), LAMBDA L :
        IF L.err # "" THEN L
        ELSE IF Check(L, {"VALUE"})
        THEN Let(Call(Call(L, "get_token"), "check_token"), LAMBDA H :
                 IF H.err # "" THEN H
                 ELSE IF ~Check(H, {"FLOW-ENTRY", "FLOW-MAPPING-END"})
                 THEN parse_node(PushState(H, "parse_flow_mapping_key"), FALSE, FALSE)
                 ELSE Emit(H, EmptyScalar, "parse_flow_mapping_key"))
        ELSE Emit(L, EmptyScalar, "parse_flow_mapping_key"))

\* self.state(): the state function the parser is at
ParseState(L0) ==
    Let(L0, LAMBDA L :
        CASE L.state = "parse_stream_start" -> parse_stream_start(L)
          [] L.state = "parse_implicit_document_start" -> parse_implicit_document_start(L)
          [] L.state = "parse_document_start" -> parse_document_start(L)
          [] L.state = "parse_document_end" -> parse_document_end(L)
          [] L.state = "parse_block_node" -> parse_node(L, TRUE, FALSE)
          [] L.state = "parse_block_sequence_first_entry" ->
                parse_block_sequence_entry(Call(L, "get_token"))
          [] L.state = "parse_block_sequence_entry" -> parse_block_sequence_entry(L)
          [] L.state = "parse_indentless_sequence_entry" ->
                parse_indentless_sequence_entry(L)
          [] L.state = "parse_block_mapping_first_key" ->
                parse_block_mapping_key(Call(L, "get_token"))
          [] L.state = "parse_block_mapping_key" -> parse_block_mapping_key(L)
          [] L.state = "parse_block_mapping_value" -> parse_block_mapping_value(L)
          [] L.state = "parse_flow_mapping_first_key" ->
                parse_flow_mapping_key(Call(L, "get_token"), TRUE)
          [] L.state = "parse_flow_mapping_key" -> parse_flow_mapping_key(L, FALSE)
          [] L.state = "parse_flow_mapping_value" -> parse_flow_mapping_value(L)
          [] L.state = "parse_flow_mapping_empty_value" ->
                Emit(L, EmptyScalar, "parse_flow_mapping_key"))

\* check_event, peek_event and get_event: run the state function when no
\* event is at hand
check_event(L0) ==
    Let(L0, LAMBDA L :
        IF L.err = "" /\ L.current_event.id = "None" /\ L.state # "None"
        THEN ParseState(L) ELSE L)

Call(L0, method) ==
    Let(L0, LAMBDA L :
        CASE method = "check_token" -> check_token(L)
          [] method = "get_token" -> get_token(L)
          [] method = "check_event" -> check_event(L))

-----------------------------------------------------------------------------
(* Nodes, and what the constructor makes of them.  Over the characters of  *)
(* the model's documents the only implicit resolver a plain scalar can     *)
(* match is the null one, on the empty scalar.                             *)

Node(id, tag, value) == [id |-> id, tag |-> tag, value |-> value]
NoNode == Node("None", "", <<>>)
ScalarNode(event) ==
    Node("scalar", IF event.plain /\ event.value = <<>> THEN "null" ELSE "str", event.value)

SameKey(a, b) == a.k = b.k /\ (a.k = "none" \/ a.v = b.v)
\* mapping[key] = value
SetItem(d, key, value) ==
    IF \E j \in 1..Len(d) : SameKey(d[j][1], key)
    THEN [d EXCEPT ![CHOOSE j \in 1..Len(d) : SameKey(d[j][1], key)] = <<@[1], value>>]
    ELSE Append(d, <<key, value>>)

RECURSIVE construct_object(_)
RECURSIVE construct_mapping(_, _)
RECURSIVE construct_sequence(_, _)
construct_mapping(pairs, d) ==
    IF pairs = <<>> THEN PyDict(d)
    ELSE Let(construct_object(pairs[1][1]), LAMBDA key :
         IF Raised(key) THEN key
         ELSE IF key.k \in {"list", "dict"} THEN Exc("found unhashable key")
         ELSE Let(construct_object(pairs[1][2]), LAMBDA value :
              IF Raised(value) THEN value
              ELSE construct_mapping(Tail(pairs), SetItem(d, key, value))))
construct_sequence(items, l) ==
    IF items = <<>> THEN PyList(l)
    ELSE Let(construct_object(Head(items)), LAMBDA item :
         IF Raised(item) THEN item ELSE construct_sequence(Tail(items), Append(l, item)))
construct_object(node) ==
    CASE node.id = "scalar" -> IF node.tag = "null" THEN NoneVal ELSE PyStr(node.value)
      [] node.id = "sequence" -> construct_sequence(node.value, <<>>)
      [] node.id = "mapping" -> construct_mapping(node.value, <<>>)

-----------------------------------------------------------------------------
(* SpecLoad: yaml_load(data) on a document, the composer one call at a     *)
(* time.  cstack holds the composer's calls in progress, cpc where the     *)
(* innermost is, ret the node the last finished call returned.             *)

MaxValue == 4

LoadAlphabet == {"a", ":", " ", BS}
Entry(key, body) == key \o <<":", " ">> \o body
FlowEntry(key) == <<"{">> \o Entry(key, <<"a">>) \o <<"}">>
Item(text) == <<"-", " ">> \o text
EntryDocs ==
    { Entry(key, body) \o trail :
        key \in {title_, url_},
        body \in SeqsUpTo(LoadAlphabet, MaxValue),
        trail \in { <<>>, <<LF>> \o Entry(url_, <<"a">>) } }
StructuredDocs ==
    { <<>>,
      <<"a">>,
      Entry(description_, <<"a", ":", " ", "a">>),
      FlowEntry(title_),
      FlowEntry(url_),
      <<"{">> \o Entry(url_, <<"a">>) \o <<",", " ">> \o Entry(title_, <<"a">>) \o <<"}">>,
      Item(FlowEntry(title_)) \o <<LF>> \o Item(FlowEntry(url_)),
      Item(Entry(title_, <<"a", ":", " ", "a">>)) \o <<LF>> \o Item(Entry(url_, <<"a">>)),
      url_ \o <<":", LF>> \o Item(<<"a">>),
      url_ \o <<":", LF, " ", " ">> \o Entry(title_, <<"a", ":", " ", "a">>),
      Item(<<"a">>) \o <<LF>> \o Item(<<>>) }
LoadDocs == EntryDocs \cup StructuredDocs

\* Scanner.__init__ (with fetch_stream_start) and Parser.__init__
NewLoader ==
    [done |-> FALSE, flow_level |-> 0,
     tokens |-> <<Token("STREAM-START", <<>>, FALSE, 0, 0)>>, tokens_taken |-> 0,
     indent |-> -1, indents |-> <<>>, allow_simple_key |-> TRUE,
     possible_simple_keys |-> {},
     state |-> "parse_stream_start", states |-> <<>>, current_event |-> NoEvent,
     err |-> ""]

\* the loader object: the reader and the rest of its fields
Self ==
    [rd |-> rd, done |-> loader.done, flow_level |-> loader.flow_level,
     tokens |-> loader.tokens, tokens_taken |-> loader.tokens_taken,
     indent |-> loader.indent, indents |-> loader.indents,
     allow_simple_key |-> loader.allow_simple_key,
     possible_simple_keys |-> loader.possible_simple_keys,
     state |-> loader.state, states |-> loader.states,
     current_event |-> loader.current_event, err |-> loader.err]
Store(L) ==
    /\ rd' = L.rd
    /\ loader' =
         [done |-> L.done, flow_level |-> L.flow_level,
          tokens |-> L.tokens, tokens_taken |-> L.tokens_taken,
          indent |-> L.indent, indents |-> L.indents,
          allow_simple_key |-> L.allow_simple_key,
          possible_simple_keys |-> L.possible_simple_keys,
          state |-> L.state, states |-> L.states,
          current_event |-> L.current_event, err |-> L.err]

Frame(fn, value, key) == [fn |-> fn, value |-> value, key |-> key]
Top == cstack[Len(cstack)]
Push(frame) == Append(cstack, frame)
Pop == SubSeq(cstack, 1, Len(cstack) - 1)
ReplaceTop(frame) == [cstack EXCEPT ![Len(cstack)] = frame]

PatchIdle == ppc = "idle" /\ idx = 0 /\ scalar = <<>> /\ tok = NoneVal

InitLoad ==
    /\ doc \in LoadDocs
    /\ rd = DataReader(doc, BufferSz)
    /\ loader = NewLoader
    /\ cpc = "start" /\ cstack = <<>> /\ ret = NoNode /\ result = NoneVal
    /\ PatchIdle /\ RenderIdle /\ CliIdle

\* the places where the composer's next statement is a check_event,
\* peek_event or get_event
AtEvent == cpc \in {"start", "document", "super", "sequence", "mapping", "end", "finish"}
\* the event at hand
Current == loader.current_event
\* whether check_event finds an event without running the parser
AtHand == ~(Current.id = "None" /\ loader.state # "None")
\* get_event() with the event at hand
Taken1 == [loader EXCEPT !.current_event = NoEvent]

\* self.current_event = self.state(), inside check_event, peek_event or
\* get_event; an exception leaves yaml_load
ParseEvent ==
    /\ AtEvent /\ ~AtHand
    /\ \E L \in { Call(Self, "check_event") } :
          /\ Store(L)
          /\ IF L.err # ""
             THEN cpc' = "error" /\ result' = Exc(L.err)
             ELSE UNCHANGED <<cpc, result>>
    /\ UNCHANGED <<doc, cstack, ret, ppc, idx, scalar, tok, renderVars, cliVars>>

\* get_single_data, get_single_node: the get_event() of the stream start
GetSingleNode ==
    /\ cpc = "start" /\ AtHand
    /\ loader' = Taken1
    /\ cpc' = "document"
    /\ UNCHANGED <<doc, rd, cstack, ret, result, ppc, idx, scalar, tok,
                   renderVars, cliVars>>

\* get_single_node: an empty stream gives None; otherwise compose_document
\* takes the document start and calls compose_node(None, None)
ComposeDocument ==
    /\ cpc = "document" /\ AtHand
    /\ loader' = Taken1
    /\ IF Current.id = "StreamEnd"
       THEN /\ cpc' = "done"
            /\ result' = NoneVal
            /\ UNCHANGED cstack
       ELSE /\ cpc' = "node"
            /\ cstack' = Push(Frame("compose_document", <<>>, NoNode))
            /\ UNCHANGED result
    /\ UNCHANGED <<doc, rd, ret, ppc, idx, scalar, tok, renderVars, cliVars>>

\* compose_node(parent, index), lines 33-35: Top is the parent, its key
\* the index when the parent is a mapping whose key is composed
ComposeNodeHook ==
    /\ cpc = "node"
    /\ cpc' = IF /\ Top.fn = "compose_mapping_node"
                 /\ Top.key.id = "scalar"
                 /\ Top.key.value \in UNQUOTED_NODE_KEYS
              THEN "patch" ELSE "super"
    /\ UNCHANGED <<doc, rd, loader, cstack, ret, result, ppc, idx, scalar, tok,
                   renderVars, cliVars>>

\* line 36
PatchBuffer ==
    /\ cpc = "patch"
    /\ rd' = patch_buffer_for_unquoted_scalar(rd)
    /\ cpc' = "super"
    /\ UNCHANGED <<doc, loader, cstack, ret, result, ppc, idx, scalar, tok,
                   renderVars, cliVars>>

\* line 38: Composer.compose_node up to the call it dispatches to
ComposeNode ==
    /\ cpc = "super" /\ AtHand
    /\ loader' = Taken1
    /\ CASE Current.id = "Scalar" ->
              /\ ret' = ScalarNode(Current)
              /\ cpc' = "return"
              /\ UNCHANGED cstack
         [] Current.id = "SequenceStart" ->
              /\ cstack' = Push(Frame("compose_sequence_node", <<>>, NoNode))
              /\ cpc' = "sequence"
              /\ UNCHANGED ret
         [] Current.id = "MappingStart" ->
              /\ cstack' = Push(Frame("compose_mapping_node", <<>>, NoNode))
              /\ cpc' = "mapping"
              /\ UNCHANGED ret
    /\ UNCHANGED <<doc, rd, result, ppc, idx, scalar, tok, renderVars, cliVars>>

\* compose_sequence_node: the test of its loop
ComposeSequenceNode ==
    /\ cpc = "sequence" /\ AtHand
    /\ IF Current.id = "SequenceEnd"
       THEN /\ loader' = Taken1
            /\ ret' = Node("sequence", "seq", Top.value)
            /\ cstack' = Pop
            /\ cpc' = "return"
       ELSE /\ cpc' = "node"
            /\ UNCHANGED <<loader, cstack, ret>>
    /\ UNCHANGED <<doc, rd, result, ppc, idx, scalar, tok, renderVars, cliVars>>

\* compose_mapping_node: the test of its loop
ComposeMappingNode ==
    /\ cpc = "mapping" /\ AtHand
    /\ IF Current.id = "MappingEnd"
       THEN /\ loader' = Taken1
            /\ ret' = Node("mapping", "map", Top.value)
            /\ cstack' = Pop
            /\ cpc' = "return"
       ELSE /\ cpc' = "node"
            /\ UNCHANGED <<loader, cstack, ret>>
    /\ UNCHANGED <<doc, rd, result, ppc, idx, scalar, tok, renderVars, cliVars>>

\* compose_node returns to the call it was made from
ComposeReturn ==
    /\ cpc = "return"
    /\ CASE Top.fn = "compose_document" ->
              /\ cstack' = Pop
              /\ cpc' = "end"
         [] Top.fn = "compose_sequence_node" ->
              /\ cstack' = ReplaceTop([Top EXCEPT !.value = Append(@, ret)])
              /\ cpc' = "sequence"
         [] Top.fn = "compose_mapping_node" /\ Top.key.id = "None" ->
              /\ cstack' = ReplaceTop([Top EXCEPT !.key = ret])
              /\ cpc' = "node"
         [] Top.fn = "compose_mapping_node" /\ Top.key.id # "None" ->
              /\ cstack' = ReplaceTop([Top EXCEPT !.value = Append(@, <<Top.key, ret>>),
                                                  !.key = NoNode])
              /\ cpc' = "mapping"
    /\ UNCHANGED <<doc, rd, loader, ret, result, ppc, idx, scalar, tok,
                   renderVars, cliVars>>

\* compose_document: the get_event() of the document end
ComposeDocumentEnd ==
    /\ cpc = "end" /\ AtHand
    /\ loader' = Taken1
    /\ cpc' = "finish"
    /\ UNCHANGED <<doc, rd, cstack, ret, result, ppc, idx, scalar, tok,
                   renderVars, cliVars>>

\* the end of get_single_node, then construct_document: what yaml_load
\* returns
ComposeFinish ==
    /\ cpc = "finish" /\ AtHand
    /\ IF Current.id # "StreamEnd"
       THEN /\ cpc' = "error"
            /\ result' = Exc("expected a single document in the stream")
       ELSE /\ cpc' = "done"
            /\ result' = construct_object(ret)
    /\ loader' = Taken1
    /\ UNCHANGED <<doc, rd, cstack, ret, ppc, idx, scalar, tok, renderVars, cliVars>>

NextLoad ==
    \/ ParseEvent \/ GetSingleNode \/ ComposeDocument \/ ComposeNodeHook
    \/ PatchBuffer \/ ComposeNode \/ ComposeSequenceNode \/ ComposeMappingNode
    \/ ComposeReturn \/ ComposeDocumentEnd \/ ComposeFinish

SpecLoad == InitLoad /\ [][NextLoad]_vars

-----------------------------------------------------------------------------
(* What the renderer claims are stated over: the records of a collection   *)
(* whatever its shape, and the group lines the output is expected to hold. *)

TabsOf(w) == IF HasKey(w, PyStr(tabs_)) THEN Items(Subscript(w, PyStr(tabs_))) ELSE <<>>

WellFormed(d) ==
    \A j \in 1..Len(Items(d.v[1][2])) :
        LET w == Items(d.v[1][2])[j]
        IN  /\ HasKey(w, PyStr(title_))
            /\ \A t \in 1..Len(TabsOf(w)) : HasKey(TabsOf(w)[t], PyStr(url_))

\* the workspaces a filter keeps, in their original order
Kept(w) ==
    \/ ~Truthy(workspaces)
    \/ \E j \in 1..Len(workspaces.v) : workspaces.v[j] = Subscript(w, PyStr(title_))
Selected == SelectSeq(Items(data.v[1][2]), Kept)

IsGroupHead(l) == l.fmt = "\t<DT><H3 FOLDED>{title}</H3>"
GroupTitles == [j \in 1..Len(SelectSeq(output.v, IsGroupHead)) |->
                  SelectSeq(output.v, IsGroupHead)[j].args[1]]

WrapOpen == Line("<DT><H3 FOLDED>{wrapper}</H3>\n<DL>", <<PyStr(wrapper)>>)
WrapClose == Line("</DL></DT>", <<>>)

ExpectedTab(tab) ==
    Line("\t\t\t<DT><A HREF=\"{url}\">{desc}</a>",
         << Subscript(tab, PyStr(url_)),
            IF HasKey(tab, PyStr(title_)) THEN Subscript(tab, PyStr(title_))
            ELSE Subscript(tab, PyStr(url_)) >>)

ExpectedGroup(w) ==
    << Line("\t<DT><H3 FOLDED>{title}</H3>", <<Subscript(w, PyStr(title_))>>),
       Line("\t\t<DL><p>", <<>>) >>
    \o [t \in 1..Len(TabsOf(w)) |-> ExpectedTab(TabsOf(w)[t])]
    \o << Line("\t\t</DL>", <<>>), Line("\t</DT>", <<>>) >>

RECURSIVE ExpectedGroups(_)
ExpectedGroups(ws) ==
    IF ws = <<>> THEN <<>> ELSE ExpectedGroup(Head(ws)) \o ExpectedGroups(Tail(ws))

\* C5: make_bookmarks returns the same output (or raises the same error)
\* whichever of the two shapes the workspaces and the tabs collections are
\* given in, and on well-formed records it resolves every element: no error.
C5_ShapeEquivalence ==
    output # NoneVal =>
        /\ \A sw \in Shapes, st \in Shapes :
              make_bookmarks(Reshape(data, sw, st), workspaces, wrapped) = output
        /\ WellFormed(data) => ~Raised(output)

C5_Witness ==
    /\ output.k = "list"
    /\ data.v[1][2].k = "dict"
    /\ Len(data.v[1][2].v) >= 2
    /\ \E j \in 1..Len(Selected) :
          /\ HasKey(Selected[j], PyStr(tabs_))
          /\ Subscript(Selected[j], PyStr(tabs_)).k = "dict"
          /\ Len(TabsOf(Selected[j])) = 2

\* C6: with a non-empty filter the rendered groups are exactly the
\* workspaces whose title equals a filter entry, in their original order and
\* re-keyed 0..k-1; with an empty or absent filter every workspace is rendered.
C6_FilterExact ==
    output.k = "list" =>
        /\ GroupTitles = [j \in 1..Len(Selected) |-> Subscript(Selected[j], PyStr(title_))]
        /\ Truthy(workspaces) =>
              Filtered(data, workspaces)
                = PyDict([j \in 1..Len(Selected) |-> <<PyInt(j - 1), Selected[j]>>])

C6_Witness ==
    /\ output.k = "list"
    /\ workspaces = PyList(<<PyStr(Work)>>)
    /\ [j \in 1..Len(Items(data.v[1][2])) |->
          Subscript(Items(data.v[1][2])[j], PyStr(title_))]
         = <<PyStr(Work), PyStr(Home), PyStr(Work2)>>
    /\ GroupTitles = <<PyStr(Work)>>

\* C8: with wrapped the output holds exactly one "Workona Export" group,
\* opened right after the top-level list opens and closed right before it
\* closes, around every workspace group; without it no such group is
\* emitted and the workspace groups sit directly in the top-level list.
C8_WrappingToggle ==
    output.k = "list" =>
        LET n == Len(output.v)
            lo == IF wrapped THEN 5 ELSE 4
            hi == IF wrapped THEN n - 2 ELSE n - 1
        IN  /\ output.v[3] = Line("<DL><p>", <<>>)
            /\ output.v[n] = Line("</DL>", <<>>)
            /\ wrapped => output.v[4] = WrapOpen /\ output.v[n - 1] = WrapClose
            /\ \A j \in lo..hi : output.v[j] # WrapOpen /\ output.v[j] # WrapClose
            /\ \A j \in 1..n : IsGroupHead(output.v[j]) => j \in lo..hi
            /\ Len(SelectSeq(output.v, IsGroupHead)) = Len(Selected)
            /\ \A j \in 1..3 : output.v[j] # WrapOpen /\ output.v[j] # WrapClose

C8_Witness ==
    /\ output.k = "list"
    /\ wrapped
    /\ Len(Selected) >= 2
    /\ \E j \in 1..Len(output.v) :
          IsGroupHead(output.v[j]) /\ output.v[j].args = <<PyStr(wrapper)>>

\* C9: every rendered workspace's group holds one hyperlink per tab, in tab
\* order, whose target is the tab's url and whose text is the tab's title
\* when it has one and its url otherwise; a workspace without tabs gets an
\* empty group.
C9_TabRendering ==
    output.k = "list" =>
        SubSeq(output.v, IF wrapped THEN 5 ELSE 4,
               IF wrapped THEN Len(output.v) - 2 ELSE Len(output.v) - 1)
          = ExpectedGroups(Selected)

C9_Witness ==
    /\ output.k = "list"
    /\ \E j \in 1..Len(output.v) : output.v[j].args = <<PyStr(UrlX), PyStr(UrlX)>>
    /\ \E j \in 1..Len(output.v) : output.v[j].args = <<PyStr(UrlY), PyStr(LabelY)>>
    /\ \E j \in 1..Len(Selected) : ~HasKey(Selected[j], PyStr(tabs_))

\* C7: the output file is opened and written only after decoding and
\* rendering have both succeeded; an unsupported extension, a decoding
\* failure, a workspace without `title` or a tab without `url` ends the run
\* in error with the output file untouched, and an unsupported extension
\* fails before any decoder is entered.
C7_NoPartialOutput ==
    /\ outputfile # NoneVal =>
          /\ inputfile.ext \in {".json", ".txt"}
          /\ inputfile.content.ok
          /\ ~Raised(data)
          /\ output.k = "list"
          /\ outputfile \in {PyList(<<>>), output}
    /\ pc = "error" => outputfile = NoneVal
    /\ inputfile.ext \notin {".json", ".txt"} => ~parsing /\ pc \in {"read", "dispatch", "error"}
    /\ pc \in {"render", "open", "write", "done"} => inputfile.content.ok
    /\ pc \in {"open", "write", "done"} =>
          \A j \in 1..Len(Selected) :
              /\ HasKey(Selected[j], PyStr(title_))
              /\ \A t \in 1..Len(TabsOf(Selected[j])) :
                    HasKey(TabsOf(Selected[j])[t], PyStr(url_))
    /\ pc = "done" => outputfile = output /\ output.k = "list"

C7_Witness ==
    /\ pc = "error"
    /\ inputfile.ext = ".txt"
    /\ inputfile.content.ok
    /\ output = Exc("KeyError")
    /\ outputfile = NoneVal
    /\ \E j \in 1..Len(Items(data.v[1][2])) :
          \E t \in 1..Len(TabsOf(Items(data.v[1][2])[j])) :
              ~HasKey(TabsOf(Items(data.v[1][2])[j])[t], PyStr(url_))

\* the value line of a patch document: the spaces after the key, and the
\* text from the first non-space character up to the line terminator
RECURSIVE CountSpaces(_)
CountSpaces(s) == IF s # <<>> /\ Head(s) = " " THEN 1 + CountSpaces(Tail(s)) ELSE 0
RECURSIVE UpToBreak(_)
UpToBreak(s) ==
    IF s = <<>> \/ Head(s) \in BreakOrNul THEN <<>> ELSE <<Head(s)>> \o UpToBreak(Tail(s))

ValueStart == Len(Key) + CountSpaces(Drop(doc, Len(Key)))
ValueText == UpToBreak(Drop(doc \o <<NUL>>, ValueStart))
Has(s, c) == \E j \in 1..Len(s) : s[j] = c

\* C2: a value holding a double quote (any other characters allowed) is
\* escaped and wrapped so that scanning the patched text as a double-quoted
\* scalar gives back exactly the original text and stops at the line's end.
C2_QuoteRoundTrip ==
    (ppc = "scanned" /\ Has(ValueText, Q)) =>
        /\ tok.ok
        /\ tok.chunks = ValueText
        /\ Unconsumed(rd) = Drop(doc \o <<NUL>>, ValueStart + Len(ValueText))

\* C4: when the scanned text is blank or an integer literal the patch
\* returns without inserting, removing or rewriting any unconsumed input.
C4_SafeInputUnchanged ==
    (ppc \in {"bailed", "swapped"} /\ (ValueText = <<>> \/ IsPyInt(ValueText))) =>
        /\ ppc = "bailed"
        /\ rd.index = ValueStart
        /\ Unconsumed(rd) = Drop(doc \o <<NUL>>, ValueStart)

C4_Witness ==
    /\ ppc = "bailed"
    /\ ValueText = <<"-", "1", " ">>
    /\ rd.buffer_sz = 2
    /\ ValueStart = Len(Key)

\* C10: whatever the buffer size and wherever the refills fall, the scan
\* leaves the consumption position where the space skip put it and the
\* unconsumed input as it was, and the swap replaces exactly the scanned
\* text: what follows the position is the quoted text, then the input from
\* the line terminator on, as with the whole stream buffered at once.
C10_RefillIndependence ==
    /\ ppc \in {"scan", "check", "bailed", "swapped"} => rd.index = ValueStart
    /\ ppc \in {"tokens", "skip", "scan", "check", "bailed"} =>
          Unconsumed(rd) = Drop(doc \o <<NUL>>, rd.index)
    /\ ppc \in {"check", "bailed", "swapped"} => scalar = ValueText
    /\ ppc = "swapped" =>
          Unconsumed(rd) = <<Q>> \o Escape(ValueText) \o <<Q>>
                             \o Drop(doc \o <<NUL>>, ValueStart + Len(ValueText))

C10_Witness ==
    /\ ppc = "swapped"
    /\ rd.buffer_sz = 2
    /\ ~rd.rawNone
    /\ Len(ValueText) = 2
    /\ Has(ValueText, Q)
    /\ ValueStart > Len(Key)

HasColonSpace(s) == \E j \in 1..(Len(s) - 1) : s[j] = ":" /\ s[j + 1] = " "

\* C1: a document that opens with the entry `title: <value>` whose unquoted
\* value holds a colon followed by a space loads, and the entry's value is
\* the string made of the line's text from the first non-space character up
\* to the line terminator.
C1_ColonValueLoads ==
    (/\ cpc \in {"done", "error"}
     /\ IsPrefix(Key, doc)
     /\ HasColonSpace(ValueText)
     /\ Head(ValueText) # Q) =>
        /\ result.k = "dict"
        /\ Subscript(result, PyStr(title_)) = PyStr(ValueText)

\* C3: the patch is entered only with a mapping as parent and a scalar key
\* `title` or `description` as index, and at that moment the last token the
\* scanner has produced is the key's value indicator and the reader stands
\* right after it: no token of the value exists yet.
C3_PatchBeforeValue ==
    cpc = "patch" =>
        /\ Top.fn = "compose_mapping_node"
        /\ Top.key.id = "scalar"
        /\ Top.key.value \in UNQUOTED_NODE_KEYS
        /\ Len(loader.tokens) = 1
        /\ loader.tokens[1].id = "VALUE"
        /\ loader.tokens[1].end = rd.index

=============================================================================
